---- MODULE Spec2Model ----
(***************************************************************************)
(* ClickTester: the task execution engine (internal/runner/runner.go) and  *)
(* the stress engine (internal/runner/stress.go) as state machines.        *)
(*                                                                         *)
(* Spec       one invocation of runner.Run: the main goroutine, the pool   *)
(*            of worker goroutines, the goroutine that closes resultCh,    *)
(*            the caller cancelling the outer context and the per-task     *)
(*            deadline timers.                                             *)
(* StressSpec one invocation of runner.RunStress: the worker loops, the    *)
(*            shared counter, the results channel and its collector, the   *)
(*            deadline context and the per-call timers.                    *)
(***************************************************************************)
EXTENDS Integers, Sequences, FiniteSets, TLC

(***************************************************************************)
(* Bounds of the model.                                                    *)
(***************************************************************************)
MaxTasks == 2
MaxWorkers == 2
\* The client calls one RunStress may issue before its context is cancelled.
MaxCalls == 3
\* The lines of an EXPLAIN output given to ExtractGranules on its own.
MaxLines == 3
\* The ids one /api/run request names.
MaxIDs == 2

(***************************************************************************)
(* Inputs of Run.                                                          *)
(***************************************************************************)
TaskTypeStructure == "structure"
TaskTypeQuery == "query"
\* A TaskType the engine does not know (TaskType is an open string type).
TaskTypeOther == "other"

TaskTypes == {TaskTypeStructure, TaskTypeQuery, TaskTypeOther}

\* The shapes of a task that runOne distinguishes.
TaskShapes ==
    { [Type |-> TaskTypeStructure, CollectExplain |-> FALSE],
      [Type |-> TaskTypeQuery, CollectExplain |-> FALSE],
      [Type |-> TaskTypeQuery, CollectExplain |-> TRUE],
      [Type |-> TaskTypeOther, CollectExplain |-> FALSE] }

\* Task ids are distinct and increase along the list (BuildTasks numbers them
\* in order, the server passes a sub-list in list order); they differ from
\* the Go slice index i-1 and from the position i.
TaskIDAt(i) == 2 * i + 1

Task(i, shape) ==
    [ID |-> TaskIDAt(i), Type |-> shape.Type,
     Opts |-> [CollectExplain |-> shape.CollectExplain]]

TaskLists ==
    UNION { { [i \in 1..n |-> Task(i, f[i])] : f \in [1..n -> TaskShapes] }
            : n \in 0..MaxTasks }

\* The workers argument: below 1 (clamped), and up to MaxWorkers.
WorkerArgs == 0..MaxWorkers

\* queryTimeout: 0 (no deadline) or a positive duration.
QueryTimeouts == {0, 50}

\* The goroutines a pool can hold.
Procs == 1..MaxWorkers

(***************************************************************************)
(* The client (chclient.Client) as the runner sees it: what a call returns.*)
(***************************************************************************)
ErrCanceled == "context canceled"
ErrDeadlineExceeded == "context deadline exceeded"
\* An error of the database or the network.
DbErrors == {"code: 60, unknown table"}

\* Successful Query results: rows, readRows, readBytes, and the stats object
\* the client attaches (query id, memory usage, partitions), which the
\* four-result Query that runOne calls does not hand over.
QueryStats ==
    { [rows |-> 3, readRows |-> 1000, readBytes |-> 4096,
       stats |-> [QueryID |-> "clicktester-1", MemoryUsage |-> 2048,
                  Partitions |-> << "202401" >>]] }

\* An EXPLAIN output is the list of its lines; a line is told by what the
\* parsers look for in it: a "Granules: X/Y" pair, a mention of a
\* projection, or neither.
GranulesLine(x, y) == [kind |-> "Granules", x |-> x, y |-> y]
ProjectionLine == [kind |-> "Projection", x |-> 0, y |-> 0]
OtherLine == [kind |-> "Other", x |-> 0, y |-> 0]

\* EXPLAIN outputs the client returns to runOne.
ExplainTexts ==
    { << GranulesLine(100, 500), ProjectionLine, GranulesLine(40, 500) >> }

\* Wall-clock durations time.Since can measure, in ms.
Durations == {7}

\* regexp FindAllStringSubmatch of GranulesRegex: the pairs of the text.
FindAllGranules(explainText) ==
    SelectSeq(explainText, LAMBDA line : line.kind = "Granules")

\* strings.Contains(strings.ToLower(explainText), "projection")
ProjectionUsed(explainText) ==
    \E k \in DOMAIN explainText : explainText[k].kind = "Projection"

RECURSIVE MinGranules(_, _)
MinGranules(matches, minVal) ==
    IF matches = << >> THEN minVal
    ELSE LET x == Head(matches).x
         IN MinGranules(Tail(matches),
                        IF minVal = 0 \/ x < minVal THEN x ELSE minVal)

ExtractGranules(explainText) ==
    LET matches == FindAllGranules(explainText)
    IN IF Len(matches) = 0 THEN 0 ELSE MinGranules(matches, 0)

VARIABLES
    tasks,          \* the tasks argument
    workersArg,     \* the workers argument
    queryTimeout,   \* the queryTimeout argument
    pc,             \* the main goroutine: "call", "collect", "returned"
    workers,        \* the local workers after the clamp
    result,         \* *tests.RunResult
    taskCh,         \* the buffered channel of task indices (closed once filled)
    resultCh,       \* the buffered channel of resultItem
    resultChClosed, \* close(resultCh) has run
    wg,             \* the WaitGroup counter
    wpc,            \* each worker: "none", "recv", "explain", "query", "send", "done"
    widx,           \* each worker: the index i it received
    wtr,            \* each worker: the TestResult tr of its runOne
    wctx,           \* each worker: the context its runOne calls the client under
    runCtx,         \* the ctx variable of Run that the worker closures capture
    ctxCancelled,   \* the caller has cancelled the context it gave to Run
    ctxs,           \* the contexts runOne derived, by the index of their task
    taken,          \* per index: receipts from taskCh, each followed by a runOne
    collected,      \* the indices of the items received from resultCh, in order
    explainCalls,   \* per index: client.Explain calls issued
    queryCalls,     \* per index: client.Query calls issued
    explainErr,     \* per index: the error client.Explain returned ("" is nil)
    queryErr        \* per index: the error client.Query returned ("" is nil)

VARIABLES
    baseQueryArg,   \* RunStress: the baseQuery argument
    stressWorkers,  \* RunStress: the workers argument, clamped once started
    stressTimeout,  \* RunStress: the queryTimeout argument
    spc,            \* RunStress: "idle", "call", "collect", "returned"
    baseQuery,      \* the local baseQuery, with the marker when it is added
    counter,        \* the shared uint64 counter
    stressCtxDone,  \* the ctx argument of RunStress is done
    stressCh,       \* RunStress's resultCh
    stressChClosed, \* close(resultCh) has run
    stressWg,       \* the WaitGroup counter
    swpc,           \* each worker: "none", "loop", "call", "send", "done"
    swq,            \* each worker: the query text q of its iteration
    swctx,          \* each worker: its runCtx: "none", "live", "expired"
    swout,          \* each worker: the {durationMs, err} it is to send
    tally,          \* total, success, failed, cancelled of the collector
    latencies,      \* the latencies slice
    errorSamples,   \* the errorSamples slice
    stressResult,   \* the *StressResult returned
    drawn,          \* the offsets drawn from the counter, in order
    issued,         \* the query texts given to client.Query, in order
    doneAtStart     \* history: ctx was already done when RunStress started

VARIABLES
    explainArg,     \* ExtractGranules: the explainText argument
    granulesRet,    \* ExtractGranules: the value returned
    fpc             \* ExtractGranules: "call", "returned", or "idle"

VARIABLES
    srvTaskList,    \* server.Run: the taskList argument
    reqTaskIDs,     \* /api/run: req.TaskIDs of the decoded body
    hpc,            \* /api/run: "recv", "running", "responded", or "idle"
    response        \* /api/run: the RunResult written to the response

VARIABLES
    subQuery,       \* SubstituteQueryParams: the query argument
    subTable,       \* SubstituteQueryParams: the fullTable argument
    subParams,      \* SubstituteQueryParams: the *TestParams argument
    subS,           \* substituteQueryParams: the local s
    subLeft,        \* the keys of repl the range has not yet produced
    subRets,        \* the strings returned by the calls so far, in order
    subpc           \* "call", "range", or "idle"

fnVars == << explainArg, granulesRet, fpc >>
srvVars == << srvTaskList, reqTaskIDs, hpc, response >>
subVars == << subQuery, subTable, subParams, subS, subLeft, subRets, subpc >>
auxVars == << fnVars, srvVars, subVars >>

stressVars == << baseQueryArg, stressWorkers, stressTimeout, spc, baseQuery,
                 counter, stressCtxDone, stressCh, stressChClosed, stressWg,
                 swpc, swq, swctx, swout, tally, latencies, errorSamples,
                 stressResult, drawn, issued, doneAtStart >>

inputs == << tasks, workersArg, queryTimeout >>
mainVars == << pc, workers, result >>
chanVars == << taskCh, resultCh, resultChClosed, wg >>
workerVars == << wpc, widx, wtr, wctx >>
ctxVars == << runCtx, ctxCancelled, ctxs >>
callLog == << taken, explainCalls, queryCalls, explainErr, queryErr >>

runVars == << inputs, mainVars, chanVars, workerVars, ctxVars, callLog,
             collected >>

vars == << runVars, stressVars, auxVars >>

(***************************************************************************)
(* Contexts. A context is named by a number: 0 is the ctx argument of Run, *)
(* which the caller may cancel; i > 0 is the context runOne derived for    *)
(* the task at index i, kept in ctxs with its parent and its state: "none" *)
(* (not derived yet), "live", "expired" (its timer fired) or "ended" (its  *)
(* cancel function has run, after runOne's last use of it). A context is   *)
(* done when it or one of its ancestors is.                                *)
(***************************************************************************)
OuterCtx == 0

NoCtx == [state |-> "none", parent |-> OuterCtx]

\* context.WithTimeout(parent, d), made for the task at index i.
WithTimeout(store, parent, i) ==
    [store EXCEPT ![i] = [state |-> "live", parent |-> parent]]

\* The cancel function of a derived context, run by runOne's defer.
CancelCtx(store, c) ==
    IF c = OuterCtx THEN store
    ELSE [store EXCEPT ![c].state = "ended"]

\* ctx.Err(): the errors the context, through itself or an ancestor, can show.
RECURSIVE CtxErrs(_)
CtxErrs(c) ==
    IF c = OuterCtx
    THEN IF ctxCancelled THEN {ErrCanceled} ELSE {}
    ELSE (CASE ctxs[c].state = "expired" -> {ErrDeadlineExceeded}
            [] ctxs[c].state = "ended" -> {ErrDeadlineExceeded, ErrCanceled}
            [] OTHER -> {})
         \cup CtxErrs(ctxs[c].parent)

\* ctx.Done() is closed.
CtxDone(c) == CtxErrs(c) # {}

\* The errors a client call made under ctx can return.
CallErrors(c) == DbErrors \cup CtxErrs(c)

(***************************************************************************)
(* runOne.                                                                 *)
(***************************************************************************)
ZeroTestResult ==
    [TaskID |-> 0, Type |-> "", Pass |-> FALSE, Error |-> "", Granules |-> 0,
     ReadRows |-> 0, ReadBytes |-> 0, MemoryUsage |-> 0, QueryID |-> "",
     Partitions |-> << >>, DurationMs |-> 0, RowsReturned |-> 0,
     ProjectionUsed |-> FALSE, ExplainText |-> << >>]

\* tr := tests.TestResult{TaskID: t.ID, ..., Type: t.Type, Pass: false}
NewTestResult(t) ==
    [ZeroTestResult EXCEPT !.TaskID = t.ID, !.Type = t.Type, !.Pass = FALSE]

\* if queryTimeout > 0: whether runOne derives a context with a deadline.
DerivesDeadline(timeout) == timeout > 0

\* Mutant: runOne's assignment ctx, cancel = context.WithTimeout(ctx, ...)
\* reaches the ctx variable the worker closures share.
CtxAfterRunOneShared(ctx, derived) == derived

\* Run's ctx after a runOne that derived the context derived from it: runOne
\* assigns to its own parameter, so the caller's variable keeps its value.
CtxAfterRunOne(ctx, derived) == ctx

\* Mutant: a task of an unknown kind is run as a structure check.
FirstCallUnknownQueried(t) ==
    CASE t.Type = TaskTypeQuery ->
            IF t.Opts.CollectExplain THEN "explain" ELSE "query"
      [] OTHER -> "query"

\* The first step of runOne's switch: the call it issues, if any.
FirstCall(t) ==
    CASE t.Type = TaskTypeStructure -> "query"
      [] t.Type = TaskTypeQuery ->
            IF t.Opts.CollectExplain THEN "explain" ELSE "query"
      [] OTHER -> "send"

\* Mutant: the error of a failed structure check is not recorded.
StructureResultErrorLost(tr, err) == [tr EXCEPT !.Pass = (err = "")]

\* case TaskTypeStructure, after client.Query returned err ("" is nil).
StructureResult(tr, err) ==
    [tr EXCEPT !.Pass = (err = ""),
               !.Error = IF err # "" THEN err ELSE tr.Error]

\* case TaskTypeQuery, after client.Explain returned an error.
ExplainFailed(tr, err) == [tr EXCEPT !.Error = "EXPLAIN: " \o err]

\* case TaskTypeQuery, after client.Explain returned explainText.
ExplainDone(tr, explainText) ==
    [tr EXCEPT !.ExplainText = explainText,
               !.Granules = ExtractGranules(explainText)]

\* Mutant: a context error of the data query is not treated as a failure.
QueryResultIgnoringCtxErr(tr, dur, err, st) ==
    IF err # "" /\ err \notin {ErrCanceled, ErrDeadlineExceeded}
    THEN [tr EXCEPT !.DurationMs = dur, !.Error = err]
    ELSE [tr EXCEPT !.DurationMs = dur, !.Pass = TRUE,
                    !.RowsReturned = st.rows, !.ReadRows = st.readRows,
                    !.ReadBytes = st.readBytes]

\* Mutant: a failed data query gives a fresh result that holds the error only.
QueryResultDiscardsPartial(tr, dur, err, st) ==
    IF err # ""
    THEN [ZeroTestResult EXCEPT !.TaskID = tr.TaskID, !.Type = tr.Type,
                                !.DurationMs = dur, !.Error = err]
    ELSE [tr EXCEPT !.DurationMs = dur, !.Pass = TRUE,
                    !.RowsReturned = st.rows, !.ReadRows = st.readRows,
                    !.ReadBytes = st.readBytes]

\* case TaskTypeQuery, after client.Query returned.
QueryResult(tr, dur, err, st) ==
    IF err # ""
    THEN [tr EXCEPT !.DurationMs = dur, !.Error = err]
    ELSE [tr EXCEPT !.DurationMs = dur, !.Pass = TRUE,
                    !.RowsReturned = st.rows, !.ReadRows = st.readRows,
                    !.ReadBytes = st.readBytes]

(***************************************************************************)
(* Run: the main goroutine.                                                *)
(***************************************************************************)
\* if workers < 1 { workers = 1 }
ClampWorkers(n) == IF n < 1 THEN 1 ELSE n

\* Mutant: the empty task list is not returned early.
ReturnsEmptyNever(ts) == FALSE

\* if len(tasks) == 0 { return &tests.RunResult{}, nil }
ReturnsEmpty(ts) == Len(ts) = 0

ZeroRunResult == [Total |-> 0, Passed |-> 0, Failed |-> 0, Results |-> << >>]

(***************************************************************************)
(* RunStress is not running.                                               *)
(***************************************************************************)
ZeroTally == [total |-> 0, success |-> 0, failed |-> 0, cancelled |-> 0]

ZeroStressResult ==
    [Total |-> 0, Success |-> 0, Failed |-> 0, Cancelled |-> 0,
     DurationSec |-> 0, QPS |-> << 0, 1 >>, LatencyP50Ms |-> 0,
     LatencyP95Ms |-> 0, LatencyP99Ms |-> 0, ErrorSamples |-> << >>]

NoOutcome == [durationMs |-> 0, err |-> << >>]

StressLocalsInit ==
    /\ baseQuery = << >>
    /\ counter = 0
    /\ stressCtxDone = FALSE
    /\ stressCh = << >>
    /\ stressChClosed = FALSE
    /\ stressWg = 0
    /\ swpc = [w \in Procs |-> "none"]
    /\ swq = [w \in Procs |-> << >>]
    /\ swctx = [w \in Procs |-> "none"]
    /\ swout = [w \in Procs |-> NoOutcome]
    /\ tally = ZeroTally
    /\ latencies = << >>
    /\ errorSamples = << >>
    /\ stressResult = ZeroStressResult
    /\ drawn = << >>
    /\ issued = << >>
    /\ doneAtStart = FALSE

StressIdle ==
    /\ baseQueryArg = << >>
    /\ stressWorkers = 0
    /\ stressTimeout = 0
    /\ spc = "idle"
    /\ StressLocalsInit

RunInit ==
    /\ tasks \in TaskLists
    /\ workersArg \in WorkerArgs
    /\ queryTimeout \in QueryTimeouts
    /\ pc = "call"
    /\ workers = workersArg
    /\ result = ZeroRunResult
    /\ taskCh = << >>
    /\ resultCh = << >>
    /\ resultChClosed = FALSE
    /\ wg = 0
    /\ wpc = [w \in Procs |-> "none"]
    /\ widx = [w \in Procs |-> 0]
    /\ wtr = [w \in Procs |-> ZeroTestResult]
    /\ wctx = [w \in Procs |-> OuterCtx]
    /\ runCtx = OuterCtx
    /\ ctxCancelled = FALSE
    /\ ctxs = [i \in 1..Len(tasks) |-> NoCtx]
    /\ taken = [i \in 1..Len(tasks) |-> 0]
    /\ collected = << >>
    /\ explainCalls = [i \in 1..Len(tasks) |-> 0]
    /\ queryCalls = [i \in 1..Len(tasks) |-> 0]
    /\ explainErr = [i \in 1..Len(tasks) |-> ""]
    /\ queryErr = [i \in 1..Len(tasks) |-> ""]

\* ExtractGranules is not being called.
FnIdle ==
    /\ explainArg = << >>
    /\ granulesRet = 0
    /\ fpc = "idle"

\* The server is not handling a request.
SrvIdle ==
    /\ srvTaskList = << >>
    /\ reqTaskIDs = << >>
    /\ hpc = "idle"
    /\ response = ZeroRunResult

\* The zero value of config.TestParams.
ZeroTestParams ==
    [ProjectCode |-> "", AppName |-> "", Namespace |-> "", Level |-> "",
     TextToken |-> "", TimeOffsetMs |-> 0]

\* SubstituteQueryParams is not being called.
SubstIdle ==
    /\ subQuery = ""
    /\ subTable = ""
    /\ subParams = ZeroTestParams
    /\ subS = ""
    /\ subLeft = {}
    /\ subRets = << >>
    /\ subpc = "idle"

Init == RunInit /\ StressIdle /\ FnIdle /\ SrvIdle /\ SubstIdle

\* Mutant: a worker goroutine is started whatever the worker count.
SpawnedAlways(w, n) == TRUE

\* for w := 0; w < workers; w++ { wg.Add(1); go func() ... }: whether the
\* w-th worker goroutine is started.
Spawned(w, n) == w <= n

\* Run up to the collection loop: the clamp, the empty case, the result, the
\* filled and closed taskCh, resultCh, the workers and the closing goroutine.
RunStart ==
    /\ pc = "call"
    /\ workers' = ClampWorkers(workersArg)
    /\ IF ReturnsEmpty(tasks)
       THEN /\ result' = ZeroRunResult
            /\ pc' = "returned"
            /\ UNCHANGED << taskCh, wg, wpc >>
       ELSE /\ result' = [Total |-> Len(tasks), Passed |-> 0, Failed |-> 0,
                          Results |-> [i \in 1..Len(tasks) |-> ZeroTestResult]]
            /\ taskCh' = [i \in 1..Len(tasks) |-> i]
            /\ wg' = workers'
            /\ wpc' = [w \in Procs |->
                          IF Spawned(w, workers') THEN "recv" ELSE "none"]
            /\ pc' = "collect"
    /\ UNCHANGED << auxVars, stressVars, inputs, resultCh, resultChClosed, widx, wtr, wctx,
                    ctxVars, callLog, collected >>

(***************************************************************************)
(* The workers: for i := range taskCh { res := runOne(...); resultCh <- }  *)
(* Indices are 1..n here and 0..n-1 in the Go code. A step of a worker is  *)
(* one receive or one return of a client call, with the code that follows  *)
(* it up to the next client call or through the send of the result.        *)
(***************************************************************************)
\* Mutant: a receive leaves the element for the other workers.
ChanAfterRecvKept(ch) == ch

\* What a receive leaves in the channel: the received element is removed.
ChanAfterRecv(ch) == Tail(ch)

\* Mutant: runOne does not return after a failed EXPLAIN.
AfterExplainGoesOn(err) == "query"

\* After client.Explain returned err: return tr, or go on to the data query.
AfterExplain(err) == IF err # "" THEN "send" ELSE "query"

Bump(f, i) == [f EXCEPT ![i] = @ + 1]

\* A worker receives an index and enters runOne up to its first client call.
WorkerTake(w) ==
    /\ wpc[w] = "recv"
    /\ taskCh # << >>
    /\ LET i == Head(taskCh)
           t == tasks[i]
           call == FirstCall(t)
           c == IF DerivesDeadline(queryTimeout) THEN i ELSE runCtx
       IN /\ taskCh' = ChanAfterRecv(taskCh)
          /\ taken' = Bump(taken, i)
          /\ widx' = [widx EXCEPT ![w] = i]
          /\ wtr' = [wtr EXCEPT ![w] = NewTestResult(t)]
          /\ ctxs' = IF DerivesDeadline(queryTimeout)
                     THEN WithTimeout(ctxs, runCtx, i) ELSE ctxs
          /\ wctx' = [wctx EXCEPT ![w] = c]
          /\ runCtx' = CtxAfterRunOne(runCtx, c)
          /\ wpc' = [wpc EXCEPT ![w] = call]
          /\ explainCalls' = IF call = "explain" THEN Bump(explainCalls, i)
                             ELSE explainCalls
          /\ queryCalls' = IF call = "query" THEN Bump(queryCalls, i)
                           ELSE queryCalls
    /\ UNCHANGED << auxVars, stressVars, inputs, mainVars, resultCh, resultChClosed, wg,
                    ctxCancelled, explainErr, queryErr, collected >>

\* runOne returns res on worker w, its deferred cancel() ends the context it
\* derived, and the worker sends: resultCh <- resultItem{idx: i, res: res}.
\* The channel holds len(tasks) items; a send on a full or closed channel
\* does not proceed. The locals i, res and runOne's ctx are dead afterwards.
SendResult(w, res) ==
    /\ ~resultChClosed
    /\ Len(resultCh) < Len(tasks)
    /\ resultCh' = Append(resultCh, [idx |-> widx[w], res |-> res])
    /\ ctxs' = CancelCtx(ctxs, wctx[w])
    /\ wpc' = [wpc EXCEPT ![w] = "recv"]
    /\ widx' = [widx EXCEPT ![w] = 0]
    /\ wtr' = [wtr EXCEPT ![w] = ZeroTestResult]
    /\ wctx' = [wctx EXCEPT ![w] = OuterCtx]

\* client.Explain returns to runOne ("" is a nil error): on an error runOne
\* returns tr and the worker sends it, else runOne issues the data query.
ExplainReturn(w) ==
    /\ wpc[w] = "explain"
    /\ \E err \in {""} \cup CallErrors(wctx[w]), explainText \in ExplainTexts :
          LET tr == IF err # "" THEN ExplainFailed(wtr[w], err)
                    ELSE ExplainDone(wtr[w], explainText)
          IN /\ explainErr' = [explainErr EXCEPT ![widx[w]] = err]
             /\ IF AfterExplain(err) = "send"
                THEN /\ SendResult(w, tr)
                     /\ UNCHANGED queryCalls
                ELSE /\ wtr' = [wtr EXCEPT ![w] = tr]
                     /\ wpc' = [wpc EXCEPT ![w] = "query"]
                     /\ queryCalls' = Bump(queryCalls, widx[w])
                     /\ UNCHANGED << resultCh, widx, wctx, ctxs >>
    /\ UNCHANGED << auxVars, stressVars, inputs, mainVars, taskCh, resultChClosed, wg, runCtx,
                    ctxCancelled, taken, explainCalls, queryErr, collected >>

\* client.Query returns to runOne, which returns tr; the worker sends it.
QueryReturn(w) ==
    /\ wpc[w] = "query"
    /\ \E err \in {""} \cup CallErrors(wctx[w]), st \in QueryStats,
          dur \in Durations :
          /\ queryErr' = [queryErr EXCEPT ![widx[w]] = err]
          /\ SendResult(w, IF tasks[widx[w]].Type = TaskTypeStructure
                           THEN StructureResult(wtr[w], err)
                           ELSE QueryResult(wtr[w], dur, err, st))
    /\ UNCHANGED << auxVars, stressVars, inputs, mainVars, taskCh, resultChClosed, wg, runCtx,
                    ctxCancelled, taken, explainCalls, queryCalls, explainErr,
                    collected >>

\* runOne made no client call (no case of its switch matched) and returned
\* tr; the worker sends it.
WorkerSend(w) ==
    /\ wpc[w] = "send"
    /\ SendResult(w, wtr[w])
    /\ UNCHANGED << auxVars, stressVars, inputs, mainVars, taskCh, resultChClosed, wg, runCtx,
                    ctxCancelled, callLog, collected >>

\* Mutant: taskCh is left open, a receive from it empty waits.
TaskChLeftOpen(ch) == FALSE

\* Run closes taskCh once it has put every index in it, before the workers
\* start: for i := range taskCh ends as soon as the channel is empty.
TaskChEnds(ch) == ch = << >>

\* The range over the closed taskCh ends; defer wg.Done().
WorkerExit(w) ==
    /\ wpc[w] = "recv"
    /\ TaskChEnds(taskCh)
    /\ wpc' = [wpc EXCEPT ![w] = "done"]
    /\ wg' = wg - 1
    /\ UNCHANGED << auxVars, stressVars, inputs, mainVars, taskCh, resultCh, resultChClosed, widx,
                    wtr, wctx, ctxVars, callLog, collected >>

\* Mutant: resultCh is closed without waiting for the workers.
WgWaitSkipped == TRUE

\* wg.Wait() returns.
WgWaitReturns == wg = 0

\* go func() { wg.Wait(); close(resultCh) }()
CloseResults ==
    /\ pc = "collect"
    /\ ~resultChClosed
    /\ WgWaitReturns
    /\ resultChClosed' = TRUE
    /\ UNCHANGED << auxVars, stressVars, inputs, mainVars, taskCh, resultCh, wg, workerVars,
                    ctxVars, callLog, collected >>

\* Mutant: results are stored in the order they arrive.
CollectItemInArrivalOrder(r, item) ==
    [r EXCEPT !.Results[r.Passed + r.Failed + 1] = item.res,
              !.Passed = IF item.res.Pass THEN @ + 1 ELSE @,
              !.Failed = IF item.res.Pass THEN @ ELSE @ + 1]

\* Mutant: the else of the pass/fail count is lost.
CollectItemCountsFailedAlways(r, item) ==
    [r EXCEPT !.Results[item.idx] = item.res,
              !.Passed = IF item.res.Pass THEN @ + 1 ELSE @,
              !.Failed = @ + 1]

\* The body of for item := range resultCh.
CollectItem(r, item) ==
    [r EXCEPT !.Results[item.idx] = item.res,
              !.Passed = IF item.res.Pass THEN @ + 1 ELSE @,
              !.Failed = IF item.res.Pass THEN @ ELSE @ + 1]

Collect ==
    /\ pc = "collect"
    /\ resultCh # << >>
    /\ result' = CollectItem(result, Head(resultCh))
    /\ collected' = Append(collected, Head(resultCh).idx)
    /\ resultCh' = Tail(resultCh)
    /\ UNCHANGED << auxVars, stressVars, inputs, pc, workers, taskCh, resultChClosed, wg,
                    workerVars, ctxVars, callLog >>

\* for item := range resultCh ends once the channel is closed and drained.
RangeEnds(ch, closed) == ch = << >> /\ closed

\* return result, nil
RunReturn ==
    /\ pc = "collect"
    /\ RangeEnds(resultCh, resultChClosed)
    /\ pc' = "returned"
    /\ UNCHANGED << auxVars, stressVars, inputs, workers, result, chanVars, workerVars, ctxVars,
                    callLog, collected >>

(***************************************************************************)
(* The environment of Run: the caller's cancel and the deadline timers.    *)
(***************************************************************************)
\* A client call of this Run is in flight or still to be issued.
CallsPending ==
    \/ pc = "call"
    \/ pc = "collect" /\ taskCh # << >>
    \/ \E w \in Procs : wpc[w] \in {"explain", "query"}

\* The caller cancels the ctx it gave to Run (a cancel after the last client
\* call has returned is seen by nothing in Run).
CancelOuter ==
    /\ CallsPending
    /\ ~ctxCancelled
    /\ ctxCancelled' = TRUE
    /\ UNCHANGED << auxVars, stressVars, inputs, mainVars, chanVars, workerVars, runCtx, ctxs,
                    callLog, collected >>

\* The timer of the context derived for the task running on w fires while
\* its client call is in flight.
DeadlineExpires(w) ==
    /\ wpc[w] \in {"explain", "query"}
    /\ wctx[w] # OuterCtx
    /\ ctxs[wctx[w]].state = "live"
    /\ ctxs' = [ctxs EXCEPT ![wctx[w]].state = "expired"]
    /\ UNCHANGED << auxVars, stressVars, inputs, mainVars, chanVars, workerVars, runCtx,
                    ctxCancelled, callLog, collected >>

Next ==
    \/ RunStart
    \/ Collect
    \/ RunReturn
    \/ CloseResults
    \/ CancelOuter
    \/ \E w \in Procs : WorkerTake(w)
    \/ \E w \in Procs : ExplainReturn(w)
    \/ \E w \in Procs : QueryReturn(w)
    \/ \E w \in Procs : WorkerSend(w)
    \/ \E w \in Procs : WorkerExit(w)
    \/ \E w \in Procs : DeadlineExpires(w)

Spec == Init /\ [][Next]_vars

\* Run with the scheduling Go gives it and a client whose calls return:
\* every goroutine that can take a step eventually takes it, and every call
\* in flight eventually returns. Nothing obliges a context to end.
RunFairness ==
    /\ WF_vars(RunStart)
    /\ WF_vars(CloseResults)
    /\ WF_vars(Collect)
    /\ WF_vars(RunReturn)
    /\ \A w \in Procs :
          /\ WF_vars(WorkerTake(w))
          /\ WF_vars(ExplainReturn(w))
          /\ WF_vars(QueryReturn(w))
          /\ WF_vars(WorkerSend(w))
          /\ WF_vars(WorkerExit(w))

RunLiveSpec == Spec /\ RunFairness

(***************************************************************************)
(* RunStress (internal/runner/stress.go). A query text is the list of its  *)
(* pieces; an error is its chain, outermost first (errors.Unwrap), and the *)
(* empty chain is nil.                                                     *)
(***************************************************************************)
timeOffsetPlaceholder == "$time_offset_ms$"

\* baseQuery arguments: with the placeholder and without it.
BaseQueries ==
    { << "SELECT count() FROM t WHERE ts > now() - ", timeOffsetPlaceholder >>,
      << "SELECT 1" >> }

\* resultCh holds workers*32 outcomes.
ResultChPerWorker == 32

\* Durations time.Since can measure around a call that returned err, in ms.
\* The collection loop reads the duration of a successful call only, so one
\* value stands for the duration of a call that returned an error.
StressDurations(err) == IF err = << >> THEN {10, 30} ELSE {10}

StressDbErrors ==
    { << "code: 60, unknown table" >>, << "code: 241, memory limit" >> }

\* fmt.Errorf("...: %w", err) in the client or the driver.
Wrap(e) == << "clickhouse: " \o e, e >>

\* strings.Contains(baseQuery, timeOffsetPlaceholder)
HasPlaceholder(q) == \E k \in DOMAIN q : q[k] = timeOffsetPlaceholder

\* Mutant: the appended marker comment does not hold the placeholder.
WithMarkerPlain(q) == q \o << " -- no offset" >>

\* baseQuery + " -- no $time_offset_ms$"
WithMarker(q) == q \o << " -- no ", timeOffsetPlaceholder >>

\* strconv.FormatUint(offset, 10)
FormatUint(n) == ToString(n)

\* strings.ReplaceAll(q, timeOffsetPlaceholder, text)
ReplaceAll(q, text) ==
    [k \in DOMAIN q |-> IF q[k] = timeOffsetPlaceholder THEN text ELSE q[k]]

\* errors.Is(err, target)
ErrorsIs(err, target) == \E k \in DOMAIN err : err[k] = target

\* Mutant: only context.Canceled is looked for.
isContextCanceledOnly(err) == ErrorsIs(err, ErrCanceled)

isContextCanceled(err) ==
    ErrorsIs(err, ErrCanceled) \/ ErrorsIs(err, ErrDeadlineExceeded)

\* err.Error()
ErrorText(err) == Head(err)

\* sort.Float64s
RECURSIVE Insert(_, _)
Insert(sorted, x) ==
    IF sorted = << >> THEN << x >>
    ELSE IF x <= Head(sorted) THEN << x >> \o sorted
    ELSE << Head(sorted) >> \o Insert(Tail(sorted), x)

\* Mutant: the latencies are left in arrival order.
SortFloat64sSkipped(xs) == xs

RECURSIVE SortFloat64s(_)
SortFloat64s(xs) ==
    IF xs = << >> THEN << >> ELSE Insert(SortFloat64s(Tail(xs)), Head(xs))

\* percentile(sorted, n, p); the Go index idx is idx + 1 here.
percentile(sorted, n, p) ==
    IF n = 0 THEN 0
    ELSE LET idx == (n * p) \div 100
         IN sorted[(IF idx >= n THEN n - 1 ELSE idx) + 1]

\* Mutant: the offset is read from the counter without adding to it.
AddUint64Stale(c, delta) == c

\* atomic.AddUint64(&counter, delta): one indivisible step that adds delta
\* and gives the new value (the wrap at 2^64 is beyond every bound here).
AddUint64(c, delta) == c + delta

\* Mutant: a cancelled call is counted as failed too.
TallyOutcomeCancelledTwice(t, err) ==
    [t EXCEPT !.total = @ + 1,
              !.success = IF err = << >> THEN @ + 1 ELSE @,
              !.cancelled = IF err # << >> /\ isContextCanceled(err)
                            THEN @ + 1 ELSE @,
              !.failed = IF err # << >> THEN @ + 1 ELSE @]

\* The counters of the collection loop after one outcome.
TallyOutcome(t, err) ==
    [t EXCEPT !.total = @ + 1,
              !.success = IF err = << >> THEN @ + 1 ELSE @,
              !.cancelled = IF err # << >> /\ isContextCanceled(err)
                            THEN @ + 1 ELSE @,
              !.failed = IF err # << >> /\ ~isContextCanceled(err)
                         THEN @ + 1 ELSE @]

\* Mutant: every failed call adds its message.
SampleOutcomeUncapped(samples, err) ==
    IF err # << >> /\ ~isContextCanceled(err)
    THEN Append(samples, ErrorText(err))
    ELSE samples

\* Mutant: a message equal to a retained one is not added.
SampleOutcomeDistinct(samples, err) ==
    IF /\ err # << >>
       /\ ~isContextCanceled(err)
       /\ Len(samples) < 5
       /\ \A k \in DOMAIN samples : samples[k] # ErrorText(err)
    THEN Append(samples, ErrorText(err))
    ELSE samples

\* errorSamples after one outcome: the first 5 messages of failed calls.
SampleOutcome(samples, err) ==
    IF err # << >> /\ ~isContextCanceled(err) /\ Len(samples) < 5
    THEN Append(samples, ErrorText(err))
    ELSE samples

\* latencies after one outcome.
LatencyOutcome(ls, r) ==
    IF r.err = << >> THEN Append(ls, r.durationMs) ELSE ls

\* The StressResult built after the collection loop; QPS is the fraction
\* total / DurationSec as << numerator, denominator >>.
BuildStressResult(t, ls, samples, durationSec) ==
    LET sorted == SortFloat64s(ls)
        n == Len(ls)
    IN [Total |-> t.total, Success |-> t.success, Failed |-> t.failed,
        Cancelled |-> t.cancelled, DurationSec |-> durationSec,
        QPS |-> IF durationSec > 0 THEN << t.total, durationSec >>
                ELSE << 0, 1 >>,
        LatencyP50Ms |-> IF n > 0 THEN percentile(sorted, n, 50) ELSE 0,
        LatencyP95Ms |-> IF n > 0 THEN percentile(sorted, n, 95) ELSE 0,
        LatencyP99Ms |-> IF n > 0 THEN percentile(sorted, n, 99) ELSE 0,
        ErrorSamples |-> samples]

\* Durations of a whole run, in seconds.
StressRunSeconds == {0, 2}

\* Run is not running.
RunIdle ==
    /\ tasks = << >>
    /\ workersArg = 0
    /\ queryTimeout = 0
    /\ pc = "idle"
    /\ workers = 0
    /\ result = ZeroRunResult
    /\ taskCh = << >>
    /\ resultCh = << >>
    /\ resultChClosed = FALSE
    /\ wg = 0
    /\ wpc = [w \in Procs |-> "none"]
    /\ widx = [w \in Procs |-> 0]
    /\ wtr = [w \in Procs |-> ZeroTestResult]
    /\ wctx = [w \in Procs |-> OuterCtx]
    /\ runCtx = OuterCtx
    /\ ctxCancelled = FALSE
    /\ ctxs = << >>
    /\ taken = << >>
    /\ collected = << >>
    /\ explainCalls = << >>
    /\ queryCalls = << >>
    /\ explainErr = << >>
    /\ queryErr = << >>

StressInit ==
    /\ baseQueryArg \in BaseQueries
    /\ stressWorkers \in WorkerArgs
    /\ stressTimeout \in QueryTimeouts
    /\ spc = "call"
    /\ StressLocalsInit
    /\ RunIdle
    /\ FnIdle
    /\ SrvIdle
    /\ SubstIdle

\* RunStress up to the collection loop: the clamp, the marker, the counter,
\* resultCh, the workers and the closing goroutine.
StressStart ==
    /\ spc = "call"
    /\ stressWorkers' = ClampWorkers(stressWorkers)
    /\ baseQuery' = IF HasPlaceholder(baseQueryArg) THEN baseQueryArg
                    ELSE WithMarker(baseQueryArg)
    /\ counter' = 0
    /\ stressWg' = stressWorkers'
    /\ swpc' = [w \in Procs |-> IF w <= stressWorkers' THEN "loop" ELSE "none"]
    /\ doneAtStart' = stressCtxDone
    /\ spc' = "collect"
    /\ UNCHANGED << auxVars, runVars, baseQueryArg, stressTimeout, stressCtxDone,
                    stressCh, stressChClosed, swq, swctx, swout, tally,
                    latencies, errorSamples, stressResult, drawn, issued >>

\* Mutant: the worker loop does not look at ctx.Done().
SeesDoneNever(done) == FALSE

\* Mutant: the worker takes the default branch when ctx is done, and
\* returns when it is not.
SeesDoneInverted(done) == ~done

\* select { case <-ctx.Done(): return; default: }: whether the worker sees
\* the context done at the top of its loop.
SeesDone(done) == done

\* One pass of the worker loop with ctx not done: the offset is drawn, the
\* query text is built and client.Query is called, under runCtx when
\* queryTimeout > 0. No more than MaxCalls calls are issued.
StressIterate(w) ==
    /\ swpc[w] = "loop"
    /\ ~SeesDone(stressCtxDone)
    /\ counter < MaxCalls
    /\ LET offset == AddUint64(counter, 1)
           q == ReplaceAll(baseQuery, FormatUint(offset))
       IN /\ counter' = offset
          /\ drawn' = Append(drawn, offset)
          /\ issued' = Append(issued, q)
          /\ swq' = [swq EXCEPT ![w] = q]
    /\ swctx' = [swctx EXCEPT ![w] = IF stressTimeout > 0 THEN "live" ELSE "none"]
    /\ swpc' = [swpc EXCEPT ![w] = "call"]
    /\ UNCHANGED << auxVars, runVars, doneAtStart, baseQueryArg, stressWorkers, stressTimeout, spc,
                    baseQuery, stressCtxDone, stressCh, stressChClosed,
                    stressWg, swout, tally, latencies, errorSamples,
                    stressResult >>

\* case <-ctx.Done(): return, and the deferred wg.Done().
StressWorkerExit(w) ==
    /\ swpc[w] = "loop"
    /\ SeesDone(stressCtxDone)
    /\ swpc' = [swpc EXCEPT ![w] = "done"]
    /\ stressWg' = stressWg - 1
    /\ UNCHANGED << auxVars, runVars, doneAtStart, baseQueryArg, stressWorkers, stressTimeout, spc,
                    baseQuery, counter, stressCtxDone, stressCh,
                    stressChClosed, swq, swctx, swout, tally, latencies,
                    errorSamples, stressResult, drawn, issued >>

\* Mutant: the call is made under a context that does not descend from the
\* ctx of RunStress.
StressCallCtxDetached(w, done) == FALSE

\* Whether the context given to the client call of worker w is done through
\* the ctx of RunStress: the call is made under ctx itself, or under the
\* runCtx derived from it by context.WithTimeout, and both are done as soon
\* as ctx is.
StressCallCtxEnded(w, done) == done

\* The errors client.Query can return to worker w: database errors, and the
\* error of the call's context once that is done, bare or wrapped: the ctx
\* of RunStress ends cancelled or past its deadline, runCtx past its own.
StressCallErrors(w) ==
    StressDbErrors
    \cup (IF StressCallCtxEnded(w, stressCtxDone)
          THEN { << ErrCanceled >>, Wrap(ErrDeadlineExceeded) }
          ELSE {})
    \cup (IF swctx[w] = "expired" THEN { << ErrDeadlineExceeded >> } ELSE {})

\* client.Query returns; cancel() ends runCtx; durationMs is measured.
StressCallReturn(w) ==
    /\ swpc[w] = "call"
    /\ \E err \in {<< >>} \cup StressCallErrors(w) :
          \E dur \in StressDurations(err) :
              swout' = [swout EXCEPT ![w] = [durationMs |-> dur, err |-> err]]
    /\ swctx' = [swctx EXCEPT ![w] = "none"]
    /\ swq' = [swq EXCEPT ![w] = << >>]
    /\ swpc' = [swpc EXCEPT ![w] = "send"]
    /\ UNCHANGED << auxVars, runVars, doneAtStart, baseQueryArg, stressWorkers, stressTimeout, spc,
                    baseQuery, counter, stressCtxDone, stressCh,
                    stressChClosed, stressWg, tally, latencies, errorSamples,
                    stressResult, drawn, issued >>

\* Mutant: a worker whose call failed leaves its loop.
AfterSendStopsOnError(err) == IF err = << >> THEN "loop" ELSE "done"

\* Where the worker goes after the send: the loop body has no branch on err,
\* the for loop starts its next pass whatever the call returned.
AfterSend(err) == "loop"

\* resultCh <- {durationMs, err}: the send waits while the channel is full.
StressSend(w) ==
    /\ swpc[w] = "send"
    /\ ~stressChClosed
    /\ Len(stressCh) < stressWorkers * ResultChPerWorker
    /\ stressCh' = Append(stressCh, swout[w])
    /\ swout' = [swout EXCEPT ![w] = NoOutcome]
    /\ swpc' = [swpc EXCEPT ![w] = AfterSend(swout[w].err)]
    /\ UNCHANGED << auxVars, runVars, doneAtStart, baseQueryArg, stressWorkers, stressTimeout, spc,
                    baseQuery, counter, stressCtxDone, stressChClosed,
                    stressWg, swq, swctx, tally, latencies, errorSamples,
                    stressResult, drawn, issued >>

\* Mutant: resultCh is closed without waiting for the workers.
StressWgWaitSkipped(n) == TRUE

\* wg.Wait() of the closing goroutine returns.
StressWgWaitReturns(n) == n = 0

\* go func() { wg.Wait(); close(resultCh) }()
StressClose ==
    /\ spc = "collect"
    /\ ~stressChClosed
    /\ StressWgWaitReturns(stressWg)
    /\ stressChClosed' = TRUE
    /\ UNCHANGED << auxVars, runVars, doneAtStart, baseQueryArg, stressWorkers, stressTimeout, spc,
                    baseQuery, counter, stressCtxDone, stressCh, stressWg,
                    swpc, swq, swctx, swout, tally, latencies, errorSamples,
                    stressResult, drawn, issued >>

\* The body of for r := range resultCh.
StressCollect ==
    /\ spc = "collect"
    /\ stressCh # << >>
    /\ LET r == Head(stressCh)
       IN /\ tally' = TallyOutcome(tally, r.err)
          /\ errorSamples' = SampleOutcome(errorSamples, r.err)
          /\ latencies' = LatencyOutcome(latencies, r)
    /\ stressCh' = Tail(stressCh)
    /\ UNCHANGED << auxVars, runVars, doneAtStart, baseQueryArg, stressWorkers, stressTimeout, spc,
                    baseQuery, counter, stressCtxDone, stressChClosed,
                    stressWg, swpc, swq, swctx, swout, stressResult, drawn,
                    issued >>

\* The range ends on the closed, drained channel; the result is built and
\* returned.
StressReturn ==
    /\ spc = "collect"
    /\ RangeEnds(stressCh, stressChClosed)
    /\ \E durationSec \in StressRunSeconds :
          stressResult' =
              BuildStressResult(tally, latencies, errorSamples, durationSec)
    /\ spc' = "returned"
    /\ UNCHANGED << auxVars, runVars, doneAtStart, baseQueryArg, stressWorkers, stressTimeout,
                    baseQuery, counter, stressCtxDone, stressCh,
                    stressChClosed, stressWg, swpc, swq, swctx, swout, tally,
                    latencies, errorSamples, drawn, issued >>

\* The ctx of RunStress is done: its deadline passed or its caller cancelled.
StressCancel ==
    /\ spc \in {"call", "collect"}
    /\ ~stressCtxDone
    /\ stressCtxDone' = TRUE
    /\ UNCHANGED << auxVars, runVars, doneAtStart, baseQueryArg, stressWorkers, stressTimeout, spc,
                    baseQuery, counter, stressCh, stressChClosed, stressWg,
                    swpc, swq, swctx, swout, tally, latencies, errorSamples,
                    stressResult, drawn, issued >>

\* The timer of runCtx fires while the call of worker w is in flight.
StressCallTimeout(w) ==
    /\ swpc[w] = "call"
    /\ swctx[w] = "live"
    /\ swctx' = [swctx EXCEPT ![w] = "expired"]
    /\ UNCHANGED << auxVars, runVars, doneAtStart, baseQueryArg, stressWorkers, stressTimeout, spc,
                    baseQuery, counter, stressCtxDone, stressCh,
                    stressChClosed, stressWg, swpc, swq, swout, tally,
                    latencies, errorSamples, stressResult, drawn, issued >>

StressNext ==
    \/ StressStart
    \/ StressCollect
    \/ StressReturn
    \/ StressClose
    \/ StressCancel
    \/ \E w \in Procs : StressIterate(w)
    \/ \E w \in Procs : StressWorkerExit(w)
    \/ \E w \in Procs : StressCallReturn(w)
    \/ \E w \in Procs : StressSend(w)
    \/ \E w \in Procs : StressCallTimeout(w)

StressSpec == StressInit /\ [][StressNext]_vars

\* RunStress with the scheduling Go gives it: every goroutine that can take
\* a step eventually takes it, and every client call in flight eventually
\* returns. Nothing obliges the context to end or a worker to start another
\* iteration.
StressFairness ==
    /\ WF_vars(StressStart)
    /\ WF_vars(StressCollect)
    /\ WF_vars(StressReturn)
    /\ WF_vars(StressClose)
    /\ \A w \in Procs :
          /\ WF_vars(StressWorkerExit(w))
          /\ WF_vars(StressCallReturn(w))
          /\ WF_vars(StressSend(w))

StressLiveSpec == StressSpec /\ StressFairness

(***************************************************************************)
(* chclient.ExtractGranules called on its own, on EXPLAIN outputs of up to *)
(* MaxLines lines.                                                         *)
(***************************************************************************)
\* The lines of the outputs: pairs with X of 0, 40 and 100, and another line.
GranulesInputLines ==
    { GranulesLine(0, 500), GranulesLine(40, 500), GranulesLine(100, 500),
      OtherLine }

GranulesInputs ==
    UNION { [1..n -> GranulesInputLines] : n \in 0..MaxLines }

GranulesInit ==
    /\ explainArg \in GranulesInputs
    /\ granulesRet = 0
    /\ fpc = "call"
    /\ RunIdle
    /\ StressIdle
    /\ SrvIdle
    /\ SubstIdle

CallExtractGranules ==
    /\ fpc = "call"
    /\ granulesRet' = ExtractGranules(explainArg)
    /\ fpc' = "returned"
    /\ UNCHANGED << runVars, stressVars, srvVars, subVars, explainArg >>

GranulesNext == CallExtractGranules

GranulesSpec == GranulesInit /\ [][GranulesNext]_vars

(***************************************************************************)
(* The /api/run handler of the control server (internal/server/server.go): *)
(* one POST request with a body that decodes, on a server started with     *)
(* taskList. The handler calls runner.Run, whose steps are those of Next.  *)
(***************************************************************************)
\* cfg.Execution.Workers of the server: below 1 (clamped) or two workers.
ServerWorkers == {0, 2}

\* Ids a request can name: those of the first two tasks and one of no task.
RequestIDs == {TaskIDAt(1), TaskIDAt(2), 4}

\* req.TaskIDs: absent or empty, or up to MaxIDs ids in any order, repeated
\* or not.
Requests == UNION { [1..n -> RequestIDs] : n \in 0..MaxIDs }

\* idSet[id] = true for every id of req.TaskIDs.
IdSet(ids) == {ids[k] : k \in DOMAIN ids}

\* Mutant: the tasks are looked up in the order of the request.
RECURSIVE TasksToRunInRequestOrder(_, _)
TasksToRunInRequestOrder(taskList, ids) ==
    IF Len(ids) = 0 THEN taskList
    ELSE SelectSeq(taskList, LAMBDA t : t.ID = Head(ids))
         \o (IF Len(ids) = 1 THEN << >>
             ELSE TasksToRunInRequestOrder(taskList, Tail(ids)))

\* tasksToRun: taskList, or its tasks whose id is in req.TaskIDs.
TasksToRun(taskList, ids) ==
    IF Len(ids) > 0
    THEN SelectSeq(taskList, LAMBDA t : t.ID \in IdSet(ids))
    ELSE taskList

HandlerInit ==
    /\ srvTaskList \in TaskLists
    /\ reqTaskIDs \in Requests
    /\ hpc = "recv"
    /\ response = ZeroRunResult
    /\ RunIdle
    /\ StressIdle
    /\ FnIdle
    /\ SubstIdle

\* The handler up to its call of runner.Run, or through the response when
\* there is nothing to run.
HandleRun ==
    /\ hpc = "recv"
    /\ LET tasksToRun == TasksToRun(srvTaskList, reqTaskIDs)
           n == Len(tasksToRun)
       IN IF n = 0
          THEN /\ response' = ZeroRunResult
               /\ hpc' = "responded"
               /\ UNCHANGED runVars
          ELSE /\ tasks' = tasksToRun
               /\ workersArg' \in {ClampWorkers(k) : k \in ServerWorkers}
               /\ queryTimeout' \in QueryTimeouts
               /\ pc' = "call"
               /\ ctxs' = [i \in 1..n |-> NoCtx]
               /\ taken' = [i \in 1..n |-> 0]
               /\ explainCalls' = [i \in 1..n |-> 0]
               /\ queryCalls' = [i \in 1..n |-> 0]
               /\ explainErr' = [i \in 1..n |-> ""]
               /\ queryErr' = [i \in 1..n |-> ""]
               /\ hpc' = "running"
               /\ UNCHANGED << response, workers, result, chanVars,
                               workerVars, runCtx, ctxCancelled, collected >>
    /\ UNCHANGED << stressVars, fnVars, subVars, srvTaskList, reqTaskIDs >>

\* runner.Run has returned: its result is encoded into the response.
Respond ==
    /\ hpc = "running"
    /\ pc = "returned"
    /\ response' = result
    /\ hpc' = "responded"
    /\ UNCHANGED << runVars, stressVars, fnVars, subVars, srvTaskList,
                    reqTaskIDs >>

HandlerNext ==
    \/ HandleRun
    \/ Respond
    \/ Next

HandlerSpec == HandlerInit /\ [][HandlerNext]_vars

(***************************************************************************)
(* Properties of Run.                                                      *)
(***************************************************************************)
Returned == pc = "returned"
NTasks == Len(tasks)
InFlight(w) == wpc[w] \in {"explain", "query"}
CtxErrors == {ErrCanceled, ErrDeadlineExceeded}

\* How many items of index i the main goroutine has received and stored.
Stored(i) == Cardinality({k \in DOMAIN collected : collected[k] = i})

\* strings.Contains
Contains(s, sub) ==
    \E k \in 1..(Len(s) - Len(sub) + 1) : SubSeq(s, k, k + Len(sub) - 1) = sub

\* C1: for a non-empty task list and a worker count >= 1 the returned result
\* list has one entry per task and entry i carries the id of task i, whatever
\* order the results arrived in.
C1_OrderPreserved ==
    (Returned /\ NTasks > 0 /\ workersArg >= 1) =>
        /\ Len(result.Results) = NTasks
        /\ \A i \in 1..NTasks : result.Results[i].TaskID = tasks[i].ID

\* Two workers, and the result of the second task arrived before the first.
C1_Witness ==
    /\ Returned
    /\ workersArg >= 2
    /\ NTasks >= 2
    /\ collected[1] = 2
    /\ collected[2] = 1

\* C2: in the returned RunResult total = len(results) = passed + failed, and
\* every task is counted once, in passed if its result passes and in failed
\* otherwise.
C2_CountsPartition ==
    Returned =>
        /\ result.Total = Len(result.Results)
        /\ result.Total = NTasks
        /\ result.Total = result.Passed + result.Failed
        /\ \A i \in 1..NTasks : Stored(i) = 1
        /\ result.Passed =
              Cardinality({i \in 1..NTasks : result.Results[i].Pass})
        /\ result.Failed =
              Cardinality({i \in 1..NTasks : ~result.Results[i].Pass})

C2_Witness == Returned /\ result.Passed >= 1 /\ result.Failed >= 1

\* C3: each index is received from taskCh by one worker only, its task is run
\* once (at most one Explain and one Query call, never on two workers) and
\* its result slot is written once; when Run returns every index has been
\* received, run and written.
C3_ExactlyOnce ==
    /\ \A i \in 1..NTasks :
          /\ taken[i] <= 1
          /\ Stored(i) <= 1
          /\ explainCalls[i] <= 1
          /\ queryCalls[i] <= 1
          /\ Cardinality({w \in Procs : widx[w] = i}) <= 1
    /\ Returned => \A i \in 1..NTasks : taken[i] = 1 /\ Stored(i) = 1

C3_Witness ==
    /\ Returned
    /\ workersArg >= 2
    /\ NTasks >= 2
    /\ \A i \in 1..NTasks : taken[i] = 1 /\ Stored(i) = 1

\* C4: a task whose client call ended with a cancellation or deadline error
\* has a result at its own index with pass = false and a non-empty error and
\* is counted in failed; the tasks whose calls returned no error pass with an
\* empty error.
C4_CtxErrorIsFailedResult ==
    Returned =>
        /\ \A i \in 1..NTasks :
              (explainErr[i] \in CtxErrors \/ queryErr[i] \in CtxErrors) =>
                  /\ Stored(i) = 1
                  /\ result.Results[i].TaskID = tasks[i].ID
                  /\ ~result.Results[i].Pass
                  /\ result.Results[i].Error # ""
        /\ \A j \in 1..NTasks :
              (queryCalls[j] = 1 /\ explainErr[j] = "" /\ queryErr[j] = "") =>
                  result.Results[j].Pass /\ result.Results[j].Error = ""
        /\ result.Total = NTasks
        /\ result.Failed =
              Cardinality({i \in 1..NTasks : ~result.Results[i].Pass})

\* A structure check that succeeds and a query that times out, two workers:
\* total 2, passed 1, failed 1.
C4_Witness ==
    /\ Returned
    /\ workersArg = 2
    /\ queryTimeout > 0
    /\ NTasks = 2
    /\ tasks[1].Type = TaskTypeStructure
    /\ tasks[2].Type = TaskTypeQuery
    /\ queryErr[1] = ""
    /\ queryErr[2] = ErrDeadlineExceeded
    /\ result.Total = 2 /\ result.Passed = 1 /\ result.Failed = 1
    /\ result.Results[1].Error = ""
    /\ result.Results[2].Error # ""

\* C5: for a Query task with CollectExplain whose Explain call returned an
\* error, no data Query call is ever issued, and its result has pass = false
\* and an error that contains the message of the EXPLAIN error.
C5_ExplainFailureIsFinal ==
    \A i \in 1..NTasks :
        (tasks[i].Type = TaskTypeQuery /\ tasks[i].Opts.CollectExplain
            /\ explainErr[i] # "") =>
            /\ queryCalls[i] = 0
            /\ Returned =>
                  /\ ~result.Results[i].Pass
                  /\ Contains(result.Results[i].Error, explainErr[i])

C5_Witness ==
    /\ Returned
    /\ \E i \in 1..NTasks :
          /\ tasks[i].Opts.CollectExplain
          /\ explainCalls[i] = 1
          /\ explainErr[i] # ""

\* C6: a StructureCheck task passes when its Query call returned no error;
\* when the call returned an error it has pass = false, a non-empty error and
\* all metric fields zero.
C6_StructureCheckResult ==
    Returned =>
        \A i \in 1..NTasks :
            tasks[i].Type = TaskTypeStructure =>
                LET r == result.Results[i]
                IN /\ queryCalls[i] = 1
                   /\ queryErr[i] = "" => r.Pass
                   /\ queryErr[i] # "" =>
                         /\ ~r.Pass
                         /\ r.Error # ""
                         /\ r.Granules = 0
                         /\ r.ReadRows = 0
                         /\ r.ReadBytes = 0
                         /\ r.DurationMs = 0
                         /\ r.RowsReturned = 0

C6_Witness ==
    /\ Returned
    /\ \E i, j \in 1..NTasks :
          /\ tasks[i].Type = TaskTypeStructure
          /\ tasks[j].Type = TaskTypeStructure
          /\ queryErr[i] = ""
          /\ result.Results[i].Pass
          /\ queryErr[j] # ""
          /\ ~result.Results[j].Pass

\* C7: the context a task's client call runs under is done only when the
\* caller cancelled the outer context or the task's own deadline expired,
\* never because of the deadline of another task; with queryTimeout = 0 the
\* call runs under the outer context itself and no deadline context exists.
C7_DeadlineIsPerTask ==
    /\ \A w \in Procs :
          InFlight(w) =>
              /\ queryTimeout = 0 => wctx[w] = OuterCtx
              /\ queryTimeout > 0 => wctx[w] = widx[w]
              /\ CtxDone(wctx[w]) =>
                    \/ ctxCancelled
                    \/ wctx[w] # OuterCtx /\ ctxs[wctx[w]].state = "expired"
    /\ queryTimeout = 0 => \A i \in 1..NTasks : ctxs[i].state = "none"

\* The deadline of one task has expired while the call of the task on the
\* other worker goes on under a context that is not done.
C7_Witness ==
    \E w, v \in Procs :
        /\ InFlight(w) /\ InFlight(v)
        /\ wctx[w] # OuterCtx /\ wctx[v] # OuterCtx
        /\ ctxs[wctx[w]].state = "expired"
        /\ ctxs[wctx[v]].state = "live"
        /\ ~CtxDone(wctx[v])

\* C8: when Run returns, for a non-empty task list, every worker has left its
\* loop, no client call is in flight and every result produced has been
\* received from resultCh and stored.
C8_ReturnsAfterWorkers ==
    (Returned /\ NTasks > 0) =>
        /\ \A w \in Procs : wpc[w] \in {"none", "done"}
        /\ \A w \in Procs : w <= workers => wpc[w] = "done"
        /\ wg = 0
        /\ resultChClosed
        /\ resultCh = << >>
        /\ \A i \in 1..NTasks : Stored(i) = taken[i]

C8_Witness ==
    /\ Returned
    /\ NTasks >= 2
    /\ workers >= 2
    /\ \A w \in Procs : w <= workers => wpc[w] = "done"

\* C9: Run with an empty task list returns total = passed = failed = 0 and no
\* results, and starts no worker (so no task is received and no client call
\* is issued).
C9_EmptyTaskList ==
    (Returned /\ NTasks = 0) =>
        /\ result = ZeroRunResult
        /\ \A w \in Procs : wpc[w] = "none"
        /\ wg = 0
        /\ ~resultChClosed
        /\ collected = << >>

C9_Witness == Returned /\ NTasks = 0 /\ workersArg >= 1 /\ result.Total = 0

(***************************************************************************)
(* Properties of RunStress.                                                *)
(***************************************************************************)
StressReturned == spc = "returned"

\* C10: the StressResult returned by RunStress has total = success + failed
\* + cancelled (and so have the counters after every collected outcome).
C10_StressTotalIsSum ==
    /\ tally.total = tally.success + tally.failed + tally.cancelled
    /\ StressReturned =>
          /\ stressResult.Total = stressResult.Success + stressResult.Failed
                                    + stressResult.Cancelled
          /\ stressResult.Total = tally.total

\* Two workers, and a run with a successful, a failed and a cancelled call.
C10_Witness ==
    /\ StressReturned
    /\ stressWorkers = 2
    /\ stressResult.Success >= 1
    /\ stressResult.Failed >= 1
    /\ stressResult.Cancelled >= 1

\* C11: the offsets drawn from the shared counter by all the workers are
\* pairwise distinct and gap-free: after k draws the drawn values are exactly
\* the k consecutive integers 1..k, and the counter holds k.
C11_OffsetsDistinctGapFree ==
    /\ \A i, j \in DOMAIN drawn : i # j => drawn[i] # drawn[j]
    /\ {drawn[i] : i \in DOMAIN drawn} = 1..Len(drawn)
    /\ counter = Len(drawn)

\* MaxCalls offsets were drawn, and two workers hold calls in flight at once.
C11_Witness ==
    /\ Len(drawn) = MaxCalls
    /\ \A w \in 1..2 : swpc[w] = "call"
    /\ swq[1] # swq[2]

\* C12: every stress call is classified into exactly one of success, failed,
\* cancelled: success iff its error is nil, cancelled iff the error is or
\* wraps context cancellation or deadline-exceeded, failed for every other
\* error. Each step of the collection loop adds one to that counter alone.
C12_ClassifiedExactlyOnce ==
    [][tally' # tally =>
          LET err == Head(stressCh).err
              ofContext == \E k \in DOMAIN err : err[k] \in CtxErrors
              class == IF err = << >> THEN "success"
                       ELSE IF ofContext THEN "cancelled" ELSE "failed"
          IN \A f \in {"success", "failed", "cancelled"} :
                tally'[f] = tally[f] + (IF f = class THEN 1 ELSE 0)]_vars

\* A failed and a cancelled call have been classified, and the next outcome
\* to classify carries a wrapped deadline-exceeded error.
C12_Witness ==
    /\ tally.failed >= 1
    /\ tally.cancelled >= 1
    /\ stressCh # << >>
    /\ Head(stressCh).err = Wrap(ErrDeadlineExceeded)

\* The k-th smallest element (k from 1) of the list ls, duplicates counted.
KthSmallest(ls, k) ==
    CHOOSE v \in {ls[i] : i \in DOMAIN ls} :
        /\ Cardinality({i \in DOMAIN ls : ls[i] < v}) < k
        /\ k <= Cardinality({i \in DOMAIN ls : ls[i] <= v})

\* Index min(floor(n*p/100), n-1), from 0, of the ascending list of ls.
PercentileOf(ls, p) ==
    LET n == Len(ls)
        idx == (n * p) \div 100
    IN IF n = 0 THEN 0
       ELSE KthSmallest(ls, (IF idx < n - 1 THEN idx ELSE n - 1) + 1)

\* C13: the three percentiles of the returned StressResult are, for p in
\* {50, 95, 99}, the element at index min(floor(n*p/100), n-1) of the
\* ascending list of the latencies of the successful calls only, n being
\* the number of successful calls; all three are 0 when n = 0. The
\* latencies 10, 20, 30, 40, 50 give p50 = 30 and p99 = 50.
C13_PercentilesOfSuccesses ==
    StressReturned =>
        /\ Len(latencies) = stressResult.Success
        /\ stressResult.LatencyP50Ms = PercentileOf(latencies, 50)
        /\ stressResult.LatencyP95Ms = PercentileOf(latencies, 95)
        /\ stressResult.LatencyP99Ms = PercentileOf(latencies, 99)
        /\ stressResult.Success = 0 =>
              /\ stressResult.LatencyP50Ms = 0
              /\ stressResult.LatencyP95Ms = 0
              /\ stressResult.LatencyP99Ms = 0
        /\ LET five == SortFloat64s(<< 50, 10, 40, 20, 30 >>)
           IN /\ percentile(five, 5, 50) = 30
              /\ percentile(five, 5, 99) = 50

\* Two successes arrived slowest first and a third call failed: the median
\* is the slower latency, which sorting moved to index 1.
C13_Witness ==
    /\ StressReturned
    /\ latencies = << 30, 10 >>
    /\ stressResult.Failed + stressResult.Cancelled >= 1
    /\ stressResult.LatencyP50Ms = 30

\* The SQL text of a query: its pieces joined.
RECURSIVE Text(_)
Text(q) == IF q = << >> THEN "" ELSE Head(q) \o Text(Tail(q))

\* C14: any two queries one RunStress gives to the client differ in their
\* SQL text, with the placeholder in the template and without it.
C14_QueryTextsDistinct ==
    \A i, j \in DOMAIN issued : i # j => Text(issued[i]) # Text(issued[j])

\* MaxCalls queries were issued from a template without the placeholder.
C14_Witness ==
    /\ ~HasPlaceholder(baseQueryArg)
    /\ Len(issued) = MaxCalls
    /\ Text(issued[1]) = "SELECT 1 -- no 1"

\* MaxCalls queries were issued from a template with the placeholder.
C14_WitnessPlaceholder ==
    /\ HasPlaceholder(baseQueryArg)
    /\ Len(issued) = MaxCalls

\* C15: once the context of RunStress is done, and every client call in
\* flight eventually returning, every worker eventually leaves its loop and
\* RunStress returns its StressResult.
C15_StopsAfterDeadline ==
    stressCtxDone ~>
        (StressReturned /\ \A w \in Procs : swpc[w] \in {"none", "done"})

\* The context ended while two workers had calls in flight; both workers
\* have left their loops and RunStress has returned every outcome.
C15_Witness ==
    /\ stressCtxDone
    /\ StressReturned
    /\ stressWorkers = 2
    /\ \A w \in 1..2 : swpc[w] = "done"
    /\ stressResult.Cancelled = 2
    /\ stressResult.Total = MaxCalls

(***************************************************************************)
(* Properties of ExtractGranules.                                          *)
(***************************************************************************)
\* The first components X of the "Granules: X/Y" pairs of a text.
FirstComponents(text) ==
    {text[k].x : k \in {j \in DOMAIN text : text[j].kind = "Granules"}}

MinOf(S) == CHOOSE m \in S : \A x \in S : m <= x

\* C16: ExtractGranules returns the minimum of the first components X of
\* all the "Granules: X/Y" pairs of the text, and 0 when the text has none.
C16_GranulesIsMinimum ==
    fpc = "returned" =>
        granulesRet = IF FirstComponents(explainArg) = {} THEN 0
                      ELSE MinOf(FirstComponents(explainArg))

(***************************************************************************)
(* Properties of the /api/run handler.                                     *)
(***************************************************************************)
\* The positions of taskList whose task the request asks for.
Asked(taskList, ids) ==
    {i \in DOMAIN taskList :
        Len(ids) = 0 \/ \E k \in DOMAIN ids : ids[k] = taskList[i].ID}

\* C17: a request with an empty or absent taskIDs list runs every task of
\* the server's task list; with a non-empty list it runs exactly the tasks
\* whose id is in the list, each once and in task-list order whatever the
\* order or repetition of the ids; the response is the RunResult of that
\* run, or a zeroed RunResult without a call of the engine when no task is
\* asked for.
C17_RunsTheSelectedTasks ==
    hpc = "responded" =>
        LET asked == Asked(srvTaskList, reqTaskIDs)
        IN IF asked = {}
           THEN /\ pc = "idle"
                /\ response = ZeroRunResult
           ELSE /\ pc = "returned"
                /\ response = result
                /\ Len(tasks) = Cardinality(asked)
                /\ \A i \in DOMAIN tasks :
                      /\ \E a \in asked : tasks[i] = srvTaskList[a]
                      /\ taken[i] = 1
                      /\ response.Results[i].TaskID = tasks[i].ID
                /\ \A i, j \in DOMAIN tasks :
                      i < j => tasks[i].ID < tasks[j].ID
                /\ response.Total = Cardinality(asked)

\* The request names the second task and then the first: both ran, in
\* task-list order.
C17_Witness ==
    /\ hpc = "responded"
    /\ reqTaskIDs = << TaskIDAt(2), TaskIDAt(1) >>
    /\ Len(srvTaskList) = 2
    /\ response.Total = 2
    /\ response.Results[1].TaskID = TaskIDAt(1)

\* The request repeats the id of the second task: it ran once.
C17_WitnessRepeated ==
    /\ hpc = "responded"
    /\ reqTaskIDs = << TaskIDAt(2), TaskIDAt(2) >>
    /\ Len(srvTaskList) = 2
    /\ response.Total = 1

\* The request names no task of the list: the engine was not called.
C17_WitnessNoMatch ==
    /\ hpc = "responded"
    /\ reqTaskIDs = << 4 >>
    /\ Len(srvTaskList) = 2
    /\ pc = "idle"

(***************************************************************************)
(* More properties of Run.                                                 *)
(***************************************************************************)
\* Task i is a Query task whose EXPLAIN call was made and returned a text.
Explained(i) ==
    /\ tasks[i].Type = TaskTypeQuery
    /\ tasks[i].Opts.CollectExplain
    /\ explainCalls[i] = 1
    /\ explainErr[i] = ""

\* C18: when the EXPLAIN call of a Query task succeeds and its data Query
\* call fails, the result has pass = false with the error of the data query
\* and still carries the explain text and the granule count.
C18_PartialResultKept ==
    Returned =>
        \A i \in 1..NTasks :
            (Explained(i) /\ queryErr[i] # "") =>
                /\ ~result.Results[i].Pass
                /\ result.Results[i].Error = queryErr[i]
                /\ result.Results[i].ExplainText \in ExplainTexts
                /\ result.Results[i].Granules =
                      MinOf(FirstComponents(result.Results[i].ExplainText))

\* Two workers; the second task was explained and its data query then failed
\* on the deadline of its context.
C18_Witness ==
    /\ Returned
    /\ workersArg = 2
    /\ NTasks = 2
    /\ Explained(2)
    /\ queryErr[2] = ErrDeadlineExceeded
    /\ result.Results[2].Granules = 40

\* C19: when a Query task with CollectExplain gets its EXPLAIN text, its
\* result stores the granule count and the projection-used flag extracted
\* from that text.
C19_GranulesAndProjectionStored ==
    Returned =>
        \A i \in 1..NTasks :
            Explained(i) =>
                \E text \in ExplainTexts :
                    /\ result.Results[i].ExplainText = text
                    /\ result.Results[i].Granules = ExtractGranules(text)
                    /\ result.Results[i].ProjectionUsed = ProjectionUsed(text)

\* C20: when the data query of a Query task succeeds, its result has
\* pass = true and records the rows returned, read rows, read bytes, memory
\* usage, and the query id and partitions of the client's stats object.
C20_StatsRecorded ==
    Returned =>
        \A i \in 1..NTasks :
            (tasks[i].Type = TaskTypeQuery /\ queryCalls[i] = 1
                /\ queryErr[i] = "") =>
                \E st \in QueryStats :
                    /\ result.Results[i].Pass
                    /\ result.Results[i].RowsReturned = st.rows
                    /\ result.Results[i].ReadRows = st.readRows
                    /\ result.Results[i].ReadBytes = st.readBytes
                    /\ result.Results[i].MemoryUsage = st.stats.MemoryUsage
                    /\ result.Results[i].QueryID = st.stats.QueryID
                    /\ result.Results[i].Partitions = st.stats.Partitions

(***************************************************************************)
(* The collection loop of RunStress on a long stream of outcomes: the      *)
(* workers have returned, close(resultCh) has run, and the outcomes of all *)
(* their calls wait in resultCh, which holds 32 of them per worker.        *)
(***************************************************************************)
MaxOutcomes == 6

\* What a call leaves in resultCh: a success, a failure of the database, or
\* the expiry of the call's own timeout.
CollectorOutcomes ==
    { [durationMs |-> 10, err |-> err] :
          err \in {<< >>, << ErrDeadlineExceeded >>} \cup StressDbErrors }

CollectorStreams ==
    UNION { [1..n -> CollectorOutcomes] : n \in 0..MaxOutcomes }

\* One worker under a per-call timeout made Len(stressCh) calls and returned
\* on seeing ctx done; nothing has been collected yet.
CollectorInit ==
    /\ baseQueryArg = << "SELECT count() FROM t WHERE ts > now() - ",
                         timeOffsetPlaceholder >>
    /\ baseQuery = baseQueryArg
    /\ stressWorkers = 1
    /\ stressTimeout = 50
    /\ spc = "collect"
    /\ stressCh \in CollectorStreams
    /\ counter = Len(stressCh)
    /\ drawn = [k \in 1..Len(stressCh) |-> k]
    /\ issued = [k \in 1..Len(stressCh) |->
                     ReplaceAll(baseQuery, FormatUint(k))]
    /\ stressCtxDone = TRUE
    /\ doneAtStart = FALSE
    /\ stressChClosed = TRUE
    /\ stressWg = 0
    /\ swpc = [w \in Procs |-> IF w = 1 THEN "done" ELSE "none"]
    /\ swq = [w \in Procs |-> << >>]
    /\ swctx = [w \in Procs |-> "none"]
    /\ swout = [w \in Procs |-> NoOutcome]
    /\ tally = ZeroTally
    /\ latencies = << >>
    /\ errorSamples = << >>
    /\ stressResult = ZeroStressResult
    /\ RunIdle
    /\ FnIdle
    /\ SrvIdle
    /\ SubstIdle

CollectorNext == StressCollect \/ StressReturn

CollectorSpec == CollectorInit /\ [][CollectorNext]_vars

(***************************************************************************)
(* config.SubstituteQueryParams, called repeatedly with the same           *)
(* arguments. The loop of substituteQueryParams ranges over the map repl,  *)
(* and Go leaves the iteration order of a map unspecified: each pass       *)
(* takes any key the range has not yet produced.                           *)
(***************************************************************************)
MaxPieces == 2
MaxRuns == 2

\* Pieces of query text: placeholders and plain SQL.
QueryPieces == {"$table_name$", "$projectCode$", "$appName$", "x = "}

RECURSIVE Join(_)
Join(pieces) ==
    IF pieces = << >> THEN "" ELSE Head(pieces) \o Join(Tail(pieces))

SubstQueries ==
    { Join(ps) : ps \in UNION { [1..n -> QueryPieces] : n \in 0..MaxPieces } }

\* Parameter sets: plain values, and values that are themselves the text of
\* another placeholder.
SubstParams ==
    { [ZeroTestParams EXCEPT !.ProjectCode = code, !.AppName = app,
                             !.Namespace = "ns", !.Level = "ERROR",
                             !.TextToken = "tok"] :
          code \in {"billing", "$appName$"}, app \in {"api", "$level$"} }

\* strconv.Itoa
Itoa(n) == ToString(n)

\* The map repl.
Repl(fullTable, p, includeTimeOffset) ==
    LET base == ("$table_name$" :> fullTable)
                  @@ ("$projectCode$" :> p.ProjectCode)
                  @@ ("$appName$" :> p.AppName)
                  @@ ("$namespace$" :> p.Namespace)
                  @@ ("$level$" :> p.Level)
                  @@ ("$text_token$" :> p.TextToken)
    IN IF includeTimeOffset
       THEN base @@ ("$time_offset_ms$" :> Itoa(p.TimeOffsetMs))
       ELSE base

\* strings.ReplaceAll(s, old, new), old not empty: the non-overlapping
\* occurrences of old, from the left.
RECURSIVE StringsReplaceAll(_, _, _)
StringsReplaceAll(s, old, new) ==
    IF Len(s) < Len(old) THEN s
    ELSE IF SubSeq(s, 1, Len(old)) = old
         THEN new \o StringsReplaceAll(SubSeq(s, Len(old) + 1, Len(s)),
                                       old, new)
         ELSE SubSeq(s, 1, 1)
                  \o StringsReplaceAll(SubSeq(s, 2, Len(s)), old, new)

SubstInit ==
    /\ subQuery \in SubstQueries
    /\ subTable = "logs_db.app_logs_v10"
    /\ subParams \in SubstParams
    /\ subS = ""
    /\ subLeft = {}
    /\ subRets = << >>
    /\ subpc = "call"
    /\ RunIdle
    /\ StressIdle
    /\ FnIdle
    /\ SrvIdle

\* SubstituteQueryParams is called: repl is built with the time offset, and
\* s := query.
SubstCall ==
    /\ subpc = "call"
    /\ Len(subRets) < MaxRuns
    /\ subS' = subQuery
    /\ subLeft' = DOMAIN Repl(subTable, subParams, TRUE)
    /\ subpc' = "range"
    /\ UNCHANGED << runVars, stressVars, fnVars, srvVars, subQuery, subTable,
                    subParams, subRets >>

\* One pass of for k, v := range repl: s = strings.ReplaceAll(s, k, v).
SubstReplace ==
    /\ subpc = "range"
    /\ \E k \in subLeft :
          /\ subS' = StringsReplaceAll(subS, k,
                                       Repl(subTable, subParams, TRUE)[k])
          /\ subLeft' = subLeft \ {k}
    /\ UNCHANGED << runVars, stressVars, fnVars, srvVars, subQuery, subTable,
                    subParams, subRets, subpc >>

\* The range is over: return s.
SubstReturn ==
    /\ subpc = "range"
    /\ subLeft = {}
    /\ subRets' = Append(subRets, subS)
    /\ subpc' = "call"
    /\ UNCHANGED << runVars, stressVars, fnVars, srvVars, subQuery, subTable,
                    subParams, subS, subLeft >>

SubstNext == SubstCall \/ SubstReplace \/ SubstReturn

SubstSpec == SubstInit /\ [][SubstNext]_vars

(***************************************************************************)
(* More properties of RunStress.                                           *)
(***************************************************************************)
\* The error is or wraps a context error.
OfContext(err) == \E k \in DOMAIN err : err[k] \in CtxErrors

\* Worker w's client call returns in this step, with the error err.
CallReturnsWith(w, err) ==
    /\ swpc[w] = "call"
    /\ swpc'[w] = "send"
    /\ swout'[w].err = err

\* C21 as claimed: once the ctx of RunStress is cancelled, no abort reaches
\* a call in flight: a call ends on a context error only through its own
\* per-call timeout.
C21_NoAbortInFlight ==
    [][\A w \in Procs : \A err \in StressCallErrors(w) :
          (CallReturnsWith(w, err) /\ OfContext(err)) =>
              swctx[w] = "expired"]_vars

\* C21 as amended: a call in flight when the ctx of RunStress is cancelled
\* is made under that ctx or a context derived from it, so the cancellation
\* reaches it: the call may be cut short with a context error, and it ends
\* on a context error only when the ctx of RunStress is done or its own
\* per-call timeout has expired.
C21_CancellationReachesCall ==
    [][\A w \in Procs :
          /\ (swpc[w] = "call" /\ stressCtxDone) =>
                 << ErrCanceled >> \in StressCallErrors(w)
          /\ \A err \in StressCallErrors(w) :
                 (CallReturnsWith(w, err) /\ OfContext(err)) =>
                     (stressCtxDone \/ swctx[w] = "expired")]_vars

\* Without a per-call timeout, a call that was in flight when the ctx of
\* RunStress was cancelled ended on the cancellation.
C21_Witness ==
    /\ stressTimeout = 0
    /\ stressCtxDone
    /\ \E w \in Procs : swpc[w] = "send" /\ swout[w].err = << ErrCanceled >>

\* C22: a call that fails or is cancelled ends only that call: its return
\* touches no other worker, cancels nothing and issues no further query (no
\* retry); after sending the outcome the worker is back at the top of its
\* loop, and the next call it makes is under an offset never drawn before.
C22_FailureEndsOnlyThatCall ==
    [][\A w \in Procs :
          /\ (swpc[w] = "call" /\ swpc'[w] = "send" /\ swout'[w].err # << >>) =>
                 /\ \A v \in Procs \ {w} :
                        /\ swpc'[v] = swpc[v]
                        /\ swctx'[v] = swctx[v]
                        /\ swq'[v] = swq[v]
                 /\ stressCtxDone' = stressCtxDone
                 /\ counter' = counter
                 /\ issued' = issued
          /\ (swpc[w] = "send" /\ swpc'[w] # "send" /\ swout[w].err # << >>) =>
                 /\ swpc'[w] = "loop"
                 /\ \A v \in Procs \ {w} : swpc'[v] = swpc[v]
          /\ (swpc[w] = "loop" /\ swpc'[w] = "call") =>
                 /\ \A k \in DOMAIN drawn : drawn[k] # counter'
                 /\ \A k \in DOMAIN issued : issued[k] # swq'[w]]_vars

\* Two workers, three calls issued, one outcome collected and it is a
\* failure: the worker whose call failed is in its next call, the other
\* worker is still in its own.
C22_Witness ==
    /\ stressWorkers = 2
    /\ Len(issued) = 3
    /\ tally.total = 1
    /\ tally.failed + tally.cancelled = 1
    /\ \A w \in 1..2 : swpc[w] = "call"

\* The collection loop takes the outcome at the head of resultCh.
Collects == tally'.total = tally.total + 1

Min(a, b) == IF a <= b THEN a ELSE b

\* C23: errorSamples never holds more than 5 messages: it holds one message
\* for each of the first min(5, failed) calls counted as failed, added at the
\* end when that call's outcome is collected; an outcome counted as
\* successful or cancelled, or a failure past the fifth, leaves it as it
\* was; the StressResult returned carries these samples.
C23_FirstFiveFailures ==
    /\ [](/\ Len(errorSamples) = Min(5, tally.failed)
          /\ spc = "returned" => stressResult.ErrorSamples = errorSamples)
    /\ [][Collects =>
             IF tally'.failed = tally.failed + 1 /\ tally.failed < 5
             THEN errorSamples' =
                      Append(errorSamples, Head(Head(stressCh).err))
             ELSE errorSamples' = errorSamples]_vars

\* Every call of the longest stream failed: the result carries 5 samples.
C23_Witness ==
    /\ spc = "returned"
    /\ tally.failed = MaxOutcomes
    /\ Len(stressResult.ErrorSamples) = 5

\* C24 as claimed: the samples retained are pairwise distinct.
C24_SamplesDistinct ==
    \A j, k \in DOMAIN errorSamples :
        errorSamples[j] = errorSamples[k] => j = k

\* The number of samples equal to msg.
Copies(samples, msg) ==
    Cardinality({ k \in DOMAIN samples : samples[k] = msg })

\* C24 as amended: the samples are not deduplicated: while fewer than 5 are
\* retained, a failed call adds its message even when an equal message is
\* already retained, so the samples may hold the same message several times.
C24_DuplicatesRetained ==
    [][(Collects /\ tally'.failed = tally.failed + 1 /\ tally.failed < 5) =>
           LET msg == Head(Head(stressCh).err)
           IN Copies(errorSamples', msg) = Copies(errorSamples, msg) + 1]_vars

\* The same message is retained twice.
C24_Witness ==
    /\ Len(errorSamples) >= 2
    /\ \E j, k \in DOMAIN errorSamples :
           j < k /\ errorSamples[j] = errorSamples[k]

(***************************************************************************)
(* More properties of Run.                                                 *)
(***************************************************************************)
\* The task at index i is neither a structure check nor a data query.
UnknownKind(i) == tasks[i].Type \notin {TaskTypeStructure, TaskTypeQuery}

\* C25: a task of an unknown kind is not executed: no Query and no Explain
\* call is made for it; its result is still produced, once and at the
\* task's index, with pass = false and an empty error, and it is counted in
\* failed.
C25_UnknownKindNotExecuted ==
    /\ \A i \in 1..NTasks :
          UnknownKind(i) =>
              /\ explainCalls[i] = 0
              /\ queryCalls[i] = 0
              /\ \A w \in Procs : widx[w] = i => ~InFlight(w)
              /\ Returned =>
                    /\ Stored(i) = 1
                    /\ result.Results[i].TaskID = tasks[i].ID
                    /\ result.Results[i].Type = tasks[i].Type
                    /\ ~result.Results[i].Pass
                    /\ result.Results[i].Error = ""
    /\ Returned =>
          result.Failed >= Cardinality({i \in 1..NTasks : UnknownKind(i)})

\* Run returned for a list whose second task is of an unknown kind and whose
\* first task passed.
C25_Witness ==
    /\ Returned
    /\ NTasks = 2
    /\ UnknownKind(2)
    /\ result.Results[1].Pass
    /\ result.Failed = 1

\* max(workerCount, 1)
PoolSize == IF workersArg >= 1 THEN workersArg ELSE 1

\* The worker has received an index and not yet sent its result.
Busy(w) == wpc[w] \in {"explain", "query", "send"}

\* C26: no more than max(workerCount, 1) client calls are in flight, since
\* no more than that many workers are started and a worker has one task in
\* progress at a time: a busy worker holds one index, which no other worker
\* holds, an idle one holds none, and every index received is held by a busy
\* worker unless its result has been sent.
C26_PoolBound ==
    /\ Cardinality({w \in Procs : InFlight(w)}) <= PoolSize
    /\ Cardinality({w \in Procs : wpc[w] # "none"}) <= PoolSize
    /\ \A w \in Procs :
          IF Busy(w)
          THEN /\ widx[w] \in 1..NTasks
               /\ taken[widx[w]] = 1
               /\ \A v \in Procs \ {w} : widx[v] # widx[w]
          ELSE widx[w] = 0
    /\ Cardinality({i \in 1..NTasks : taken[i] >= 1})
          = Cardinality({w \in Procs : Busy(w)})
              + Len(resultCh) + Len(collected)

\* One worker, two tasks: the first task's call is in flight while the
\* second waits in taskCh.
C26_Witness ==
    /\ workersArg <= 1
    /\ NTasks = 2
    /\ Len(taskCh) = 1
    /\ Cardinality({w \in Procs : InFlight(w)}) = 1

\* Two workers, two tasks, both calls in flight.
C26_WitnessFullPool ==
    /\ workersArg = 2
    /\ Cardinality({w \in Procs : InFlight(w)}) = 2

\* C27: provided every client call returns, Run returns, for every task
\* list and every worker count, below 1 and above the number of tasks
\* included; when it returns every worker started has left its loop, and a
\* worker that finds taskCh empty leaves without a call, a receive or a
\* result.
C27_RunTerminates ==
    /\ <>Returned
    /\ [](Returned => \A w \in Procs : wpc[w] \in {"none", "done"})
    /\ [][\A w \in Procs :
             (wpc[w] = "recv" /\ wpc'[w] = "done") =>
                 UNCHANGED << taken, taskCh, resultCh, explainCalls,
                              queryCalls, widx >>]_vars

\* Run returned with two workers for one task: one of them found taskCh
\* empty.
C27_Witness ==
    /\ Returned
    /\ NTasks = 1
    /\ workersArg = 2
    /\ \A w \in Procs : wpc[w] = "done"

\* Run returned with a worker count of 0 for two tasks.
C27_WitnessNoWorkers ==
    /\ Returned
    /\ NTasks = 2
    /\ workersArg = 0
    /\ Len(collected) = 2

\* C28: the total of the StressResult is the number of client Query calls
\* issued: every call issued is either still in flight, or its outcome is
\* about to be sent, waits in resultCh, or has been counted, once; when
\* RunStress returns nothing is in flight or waiting, so no outcome is lost
\* at shutdown or at the close of resultCh.
C28_EveryCallCounted ==
    /\ Len(issued) =
          tally.total + Len(stressCh)
            + Cardinality({w \in Procs : swpc[w] \in {"call", "send"}})
    /\ StressReturned =>
          /\ stressResult.Total = Len(issued)
          /\ stressCh = << >>
          /\ \A w \in Procs : swpc[w] \in {"none", "done"}

\* RunStress returned after MaxCalls calls by two workers, one of them cut
\* short by the end of the run.
C28_Witness ==
    /\ StressReturned
    /\ stressWorkers = 2
    /\ stressCtxDone
    /\ stressResult.Total = MaxCalls
    /\ stressResult.Cancelled >= 1

\* C29: a worker whose check at the top of the loop finds ctx done starts no
\* iteration: an iteration starts only from a check that found ctx not done,
\* and a worker at its check with ctx done can only return, drawing no
\* offset and issuing no query; so when ctx is already done as RunStress
\* starts, no offset is ever drawn, no query is ever issued, and the result
\* has total = 0 and all percentiles 0.
C29_NoIterationOnceCancelled ==
    /\ [][\A w \in Procs :
             /\ (swpc[w] = "loop" /\ swpc'[w] = "call") => ~stressCtxDone
             /\ (swpc[w] = "loop" /\ stressCtxDone /\ swpc'[w] # "loop") =>
                    /\ swpc'[w] = "done"
                    /\ UNCHANGED << counter, drawn, issued, swq >>]_vars
    /\ [](doneAtStart =>
             /\ counter = 0
             /\ drawn = << >>
             /\ issued = << >>
             /\ \A w \in Procs : swpc[w] \in {"none", "loop", "done"}
             /\ tally = ZeroTally
             /\ StressReturned =>
                    /\ stressResult.Total = 0
                    /\ stressResult.LatencyP50Ms = 0
                    /\ stressResult.LatencyP95Ms = 0
                    /\ stressResult.LatencyP99Ms = 0)

\* RunStress was called with ctx done and two workers, and has returned.
C29_Witness ==
    /\ doneAtStart
    /\ StressReturned
    /\ stressWorkers = 2
    /\ \A w \in Procs : swpc[w] = "done"

\* ctx ended during the run: a worker returned from its check although
\* more calls could be made.
C29_WitnessMidRun ==
    /\ ~doneAtStart
    /\ stressCtxDone
    /\ 0 < counter
    /\ counter < MaxCalls
    /\ \E w \in Procs : swpc[w] = "done"

(***************************************************************************)
(* Properties of SubstituteQueryParams.                                    *)
(***************************************************************************)
\* C30: SubstituteQueryParams is deterministic: every call with the same
\* query text and parameter set returns the same string, whatever order the
\* placeholders are replaced in, also when a parameter value contains the
\* text of another placeholder.
C30_SubstitutionDeterministic ==
    \A i, j \in DOMAIN subRets : subRets[i] = subRets[j]

====
